---- MODULE Spec2Model ----
(***************************************************************************)
(* Model of LebanonDiseases.py: the CSV load / normalisation step, the     *)
(* coordinate join and the three groupby-sum aggregates, driven by one     *)
(* Streamlit script run (main) that is re-run whenever a widget changes.   *)
(*                                                                         *)
(* Encoding of values                                                      *)
(*   - A Python str is a sequence of pieces whose concatenation is the     *)
(*     string.  The separators "/", "_", " ", "-" and every decimal digit  *)
(*     are always pieces of their own; a run of other characters is one    *)
(*     piece ("Beqaa", "foo", "http:").                                    *)
(*   - A DataFrame / Series is [columns |-> <<names>>, rows |-> f] where f *)
(*     maps an index label to a row (a function from column name to        *)
(*     value).  The loaded frame is indexed 1..n in file order.  A groupby *)
(*     result is indexed by its group key: the order of its rows is not    *)
(*     modelled.                                                           *)
(*   - NaN stands for a missing value (None, NaN, NaT).  All real numbers  *)
(*     of the model are >= 0.  Latitudes and longitudes are scaled by 10^4.*)
(*   - The widgets (select_slider, multiselect) are external: they return  *)
(*     an element, resp. a subset, of the options they are given, and      *)
(*     raise when their default is not found among the options.            *)
(***************************************************************************)
EXTENDS Integers, Sequences, FiniteSets, TLC

\* ---------------------------------------------------------------- bounds
MaxRows == 2

\* ------------------------------------------------------------- constants
NaN == -1

NoFrame == [columns |-> <<>>, rows |-> <<>>]

BeqaaValley == <<"Beqaa", " ", "Valley">>
SouthGovernorate == <<"South", " ", "Governorate">>
Beirut == <<"Beirut">>
MountLebanon == <<"Mount", " ", "Lebanon">>
Tripoli == <<"Tripoli">>
Nabatieh == <<"Nabatieh">>
BaalbekHermel == <<"Baalbek", "-", "Hermel">>
Akkar == <<"Akkar">>
NorthGovernorate == <<"North", " ", "Governorate">>
NorthLebanon == <<"North", " ", "Lebanon">>

REGION_COORDS ==
    (BeqaaValley :> <<338467, 359020>>) @@
    (SouthGovernorate :> <<332721, 352033>>) @@
    (Beirut :> <<338938, 355018>>) @@
    (MountLebanon :> <<338333, 355833>>) @@
    (Tripoli :> <<344367, 358308>>) @@
    (Nabatieh :> <<333772, 354839>>) @@
    (BaalbekHermel :> <<341796, 361508>>) @@
    (Akkar :> <<345431, 360771>>)

\* ---------------------------------------------------------------- inputs
UriPrefix == <<"http:", "/", "/", "data", "/">>

AreaInputs ==
    { UriPrefix \o <<"Beqaa", "_", "Valley">>,
      UriPrefix \o <<"North", "_", "Lebanon">>,
      <<"North", "_", "Governorate">>,
      UriPrefix \o <<"Keserwan", "_", "District">> }

PeriodInputs ==
    { UriPrefix \o <<"0", "1", "-", "2", "0", "1", "9">>,
      <<"1", "2", "-", "2", "0", "2", "0">>,
      UriPrefix \o <<"1", "3", "-", "2", "0", "1", "9">>,
      <<"foo">>,
      UriPrefix }

CaseInputs == {1, 2}

RawRows ==
    { ("refArea" :> a) @@ ("refPeriod" :> p) @@ ("Number of cases" :> c) :
        a \in AreaInputs, p \in PeriodInputs, c \in CaseInputs }

MissingFile == [exists |-> FALSE, rows |-> <<>>]

Files ==
    {MissingFile} \cup
    { [exists |-> TRUE, rows |-> rs] : rs \in UNION { [1..n -> RawRows] : n \in 1..MaxRows } }

\* ------------------------------------------------------- string helpers
MaxOf(S) == CHOOSE m \in S : \A k \in S : k <= m

\* x.split('/')[-1]
LastSegment(s) ==
    LET slashes == { i \in 1..Len(s) : s[i] = "/" }
    IN  IF slashes = {} THEN s ELSE SubSeq(s, MaxOf(slashes) + 1, Len(s))

\* .replace('_', ' ')
ReplaceUnderscores(s) == [i \in 1..Len(s) |-> IF s[i] = "_" THEN " " ELSE s[i]]

AliasRemapChained(r) ==
    IF r = NorthGovernorate THEN NorthLebanon
    ELSE IF r = NorthLebanon THEN Tripoli
    ELSE r

\* Series.replace({'North Governorate': 'Tripoli', 'North Lebanon': 'Tripoli'})
AliasRemap(r) ==
    IF r = NorthGovernorate THEN Tripoli
    ELSE IF r = NorthLebanon THEN Tripoli
    ELSE r

NormalizeRegion(refArea) == AliasRemap(ReplaceUnderscores(LastSegment(refArea)))

DigitChars == <<"0", "1", "2", "3", "4", "5", "6", "7", "8", "9">>

IsDigit(c) == \E d \in 1..10 : DigitChars[d] = c

DigitVal(c) == (CHOOSE d \in 1..10 : DigitChars[d] = c) - 1

RECURSIVE IntToStr(_)
IntToStr(n) ==
    IF n < 10 THEN <<DigitChars[n + 1]>>
    ELSE Append(IntToStr(n \div 10), DigitChars[(n % 10) + 1])

\* --------------------------------------------- pd.to_datetime('%m-%Y')
NaT == [month |-> NaN, year |-> NaN]

nat_strings == { <<"NaT">>, <<"nat">>, <<"NAT">>, <<"nan">>, <<"NaN">>, <<"NAN">> }

\* the rest of the format after a month of k characters: "-", four digits, end
MatchesRest(s, k) ==
    /\ Len(s) = k + 5
    /\ s[k + 1] = "-"
    /\ \A j \in (k + 2)..(k + 5) : IsDigit(s[j])

\* %m is 1[0-2] | 0[1-9] | [1-9]
TwoDigitMonth(s) ==
    /\ Len(s) >= 2
    /\ IsDigit(s[1]) /\ IsDigit(s[2])
    /\ 10 * DigitVal(s[1]) + DigitVal(s[2]) \in 1..12
    /\ MatchesRest(s, 2)

OneDigitMonth(s) ==
    /\ Len(s) >= 1
    /\ IsDigit(s[1]) /\ DigitVal(s[1]) \in 1..9
    /\ MatchesRest(s, 1)

YearAt(s, k) ==
    1000 * DigitVal(s[k + 2]) + 100 * DigitVal(s[k + 3])
        + 10 * DigitVal(s[k + 4]) + DigitVal(s[k + 5])

to_datetime_strict(s) ==
    IF TwoDigitMonth(s)
    THEN [ok |-> TRUE,
          ts |-> [month |-> 10 * DigitVal(s[1]) + DigitVal(s[2]), year |-> YearAt(s, 2)]]
    ELSE IF OneDigitMonth(s)
    THEN [ok |-> TRUE, ts |-> [month |-> DigitVal(s[1]), year |-> YearAt(s, 1)]]
    ELSE [ok |-> FALSE, ts |-> NaT]

\* one element of pd.to_datetime(..., format='%m-%Y'): an empty string or a
\* NaT token is a missing value, anything else must match the whole format
to_datetime(s) ==
    IF s = <<>> \/ s \in nat_strings THEN [ok |-> TRUE, ts |-> NaT]
    ELSE to_datetime_strict(s)

\* ------------------------------------------------------ frame helpers
RECURSIVE SumCases(_, _)
SumCases(rows, S) ==
    IF S = {} THEN 0
    ELSE LET i == CHOOSE j \in S : TRUE
         IN  rows[i]["Cases"] + SumCases(rows, S \ {i})

HasColumn(d, name) == \E k \in 1..Len(d.columns) : d.columns[k] = name

\* df[name] = vals, where vals has the index of df: in place on the frame object
SetColumn(d, name, vals) ==
    [columns |-> IF HasColumn(d, name) THEN d.columns ELSE Append(d.columns, name),
     rows |-> [i \in DOMAIN d.rows |->
                 [c \in (DOMAIN d.rows[i]) \cup {name} |->
                     IF c = name THEN vals[i] ELSE d.rows[i][c]]]]

\* ==, with NaN different from everything
ValEq(a, b) == a # NaN /\ b # NaN /\ a = b

\* ------------------------------------------------- load_and_process_data
LoadedRow(raw) ==
    LET dt == to_datetime(LastSegment(raw["refPeriod"])).ts
    IN  ("refArea" :> raw["refArea"]) @@
        ("refPeriod" :> raw["refPeriod"]) @@
        ("Cases" :> raw["Number of cases"]) @@
        ("Region" :> NormalizeRegion(raw["refArea"])) @@
        ("Month-Year" :> dt) @@
        ("Year" :> dt.year)

LoadedColumns == <<"refArea", "refPeriod", "Cases", "Region", "Month-Year", "Year">>

\* pd.read_csv raises for a missing file; pd.to_datetime raises as soon as one
\* element does not parse, and then no frame is returned
load_and_process_data(f) ==
    IF ~ f.exists THEN [err |-> "FileNotFoundError", df |-> NoFrame]
    ELSE IF \E i \in DOMAIN f.rows : ~ to_datetime(LastSegment(f.rows[i]["refPeriod"])).ok
    THEN [err |-> "ValueError", df |-> NoFrame]
    ELSE [err |-> "none",
          df |-> [columns |-> LoadedColumns,
                  rows |-> [i \in DOMAIN f.rows |-> LoadedRow(f.rows[i])]]]

\* ------------------------------------------------------- add_coordinates
CoordOf(r, k) == IF r \in DOMAIN REGION_COORDS THEN REGION_COORDS[r][k] ELSE NaN

add_coordinates_keep_all(d) ==
    LET lat == [i \in DOMAIN d.rows |-> CoordOf(d.rows[i]["Region"], 1)]
        lon == [i \in DOMAIN d.rows |-> CoordOf(d.rows[i]["Region"], 2)]
        arg == SetColumn(SetColumn(d, "lat", lat), "lon", lon)
    IN  [arg |-> arg, ret |-> arg]

\* arg: the frame object that was passed, as it is after the call (the two
\* column assignments act on it); ret: the frame dropna returns
add_coordinates(d) ==
    LET lat == [i \in DOMAIN d.rows |-> CoordOf(d.rows[i]["Region"], 1)]
        lon == [i \in DOMAIN d.rows |-> CoordOf(d.rows[i]["Region"], 2)]
        arg == SetColumn(SetColumn(d, "lat", lat), "lon", lon)
        keep == { i \in DOMAIN arg.rows :
                    arg.rows[i]["lat"] # NaN /\ arg.rows[i]["lon"] # NaN }
    IN  [arg |-> arg,
         ret |-> [columns |-> arg.columns, rows |-> [i \in keep |-> arg.rows[i]]]]

\* ------------------------------------------------------- the aggregates
\* d[d['Year'] == year].groupby('Region', as_index=False)['Cases'].sum()
GroupByRegionForYear(d, year) ==
    LET sel == { i \in DOMAIN d.rows : ValEq(d.rows[i]["Year"], year) }
        keys == { d.rows[i]["Region"] : i \in sel }
    IN  [columns |-> <<"Region", "Cases">>,
         rows |-> [r \in keys |->
                     ("Region" :> r) @@
                     ("Cases" :> SumCases(d.rows, { i \in sel : d.rows[i]["Region"] = r }))]]

GroupByRegionFirstOnly(d) ==
    LET keys == { d.rows[i]["Region"] : i \in DOMAIN d.rows }
        first(r) == CHOOSE i \in DOMAIN d.rows :
                       /\ d.rows[i]["Region"] = r
                       /\ \A j \in DOMAIN d.rows : d.rows[j]["Region"] = r => i <= j
    IN  [columns |-> <<"Region", "Cases">>,
         rows |-> [r \in keys |-> ("Region" :> r) @@ ("Cases" :> d.rows[first(r)]["Cases"])]]

\* d.groupby('Region')['Cases'].sum()
GroupByRegion(d) ==
    LET keys == { d.rows[i]["Region"] : i \in DOMAIN d.rows }
    IN  [columns |-> <<"Region", "Cases">>,
         rows |-> [r \in keys |->
                     ("Region" :> r) @@
                     ("Cases" :> SumCases(d.rows,
                                    { i \in DOMAIN d.rows : d.rows[i]["Region"] = r }))]]

GroupByYearRegionZeroFilled(d, regions) ==
    LET years == { d.rows[i]["Year"] : i \in DOMAIN d.rows } \ {NaN}
        keys == { <<y, r>> : y \in years, r \in regions }
    IN  [columns |-> <<"Year", "Region", "Cases">>,
         rows |-> [k \in keys |->
                     ("Year" :> k[1]) @@ ("Region" :> k[2]) @@
                     ("Cases" :> SumCases(d.rows,
                                    { i \in DOMAIN d.rows :
                                        /\ d.rows[i]["Region"] = k[2]
                                        /\ ValEq(d.rows[i]["Year"], k[1]) }))]]

\* d[d['Region'].isin(regions)].groupby(['Year', 'Region'])['Cases'].sum()
\*     .reset_index(); groupby drops the rows whose key is missing
GroupByYearRegion(d, regions) ==
    LET sel == { i \in DOMAIN d.rows :
                   d.rows[i]["Region"] \in regions /\ d.rows[i]["Year"] # NaN }
        keys == { <<d.rows[i]["Year"], d.rows[i]["Region"]>> : i \in sel }
    IN  [columns |-> <<"Year", "Region", "Cases">>,
         rows |-> [k \in keys |->
                     ("Year" :> k[1]) @@ ("Region" :> k[2]) @@
                     ("Cases" :> SumCases(d.rows,
                                    { i \in sel : /\ d.rows[i]["Year"] = k[1]
                                                  /\ d.rows[i]["Region"] = k[2] }))]]

\* ------------------------------------------------------- plot_bubble_map
HoverText(row) ==
    row["Region"] \o <<":", " ">> \o IntToStr(row["Cases"])
        \o <<" ", "total", " ", "cases">>

\* d.apply(lambda row: ..., axis=1)
Hover(d) == [i \in DOMAIN d.rows |-> HoverText(d.rows[i])]

plot_bubble_map_inplace(d, year) ==
    LET ac == add_coordinates(d)
        g == GroupByRegionForYear(ac.ret, year)
    IN  [df |-> ac.arg, arg_before |-> d, arg_after |-> ac.arg,
         coords |-> g,
         err |-> IF DOMAIN g.rows = {} THEN "ValueError" ELSE "none",
         df_total |-> IF DOMAIN g.rows = {} THEN NoFrame ELSE SetColumn(g, "Hover", Hover(g))]

plot_bubble_map_unfiltered(d, year) ==
    LET grouped == GroupByRegionForYear(d, year)
        ac == add_coordinates_keep_all(grouped)
    IN  [df |-> d, arg_before |-> grouped, arg_after |-> ac.arg,
         coords |-> ac.ret,
         err |-> IF DOMAIN ac.ret.rows = {} THEN "ValueError" ELSE "none",
         df_total |-> IF DOMAIN ac.ret.rows = {} THEN NoFrame
                      ELSE SetColumn(ac.ret, "Hover", Hover(ac.ret))]

\* df: the caller's frame after the call; arg_before / arg_after: the frame
\* handed to add_coordinates, before and after that call; coords: what
\* add_coordinates returned (line 48).  On an empty frame the row-wise apply of
\* line 49 returns a frame instead of a column and the assignment raises.
plot_bubble_map(d, year) ==
    LET grouped == GroupByRegionForYear(d, year)
        ac == add_coordinates(grouped)
    IN  [df |-> d, arg_before |-> grouped, arg_after |-> ac.arg,
         coords |-> ac.ret,
         err |-> IF DOMAIN ac.ret.rows = {} THEN "ValueError" ELSE "none",
         df_total |-> IF DOMAIN ac.ret.rows = {} THEN NoFrame
                      ELSE SetColumn(ac.ret, "Hover", Hover(ac.ret))]

\* ----------------------------------------------------------------- state
VARIABLES
    file,                   \* the CSV at CSV_FILE_PATH, if it exists
    pc,                     \* position of the script run
    err,                    \* exception that ended the run, or "none"
    df,                     \* main: the loaded frame
    selected_year,          \* main: value of the slider
    arg_before,             \* add_coordinates: its argument when called
    arg_after,              \* add_coordinates: the same object on return
    coords,                 \* plot_bubble_map: df_total after line 48
    df_total,               \* main: frame returned by plot_bubble_map
    total_by_region,        \* main: line 92
    top_region,             \* main: line 93
    selected_line_regions,  \* main: value of the multiselect
    line_df,                \* main: line 120
    region_totals_df        \* main: lines 159-165

vars == <<file, pc, err, df, selected_year, arg_before, arg_after, coords, df_total,
          total_by_region, top_region, selected_line_regions, line_df, region_totals_df>>

locals == <<selected_year, arg_before, arg_after, coords, df_total,
            total_by_region, top_region, selected_line_regions, line_df, region_totals_df>>

NoRegion == <<>>

Init ==
    /\ file \in Files
    /\ pc = "load"
    /\ err = "none"
    /\ df = NoFrame
    /\ selected_year = NaN
    /\ arg_before = NoFrame
    /\ arg_after = NoFrame
    /\ coords = NoFrame
    /\ df_total = NoFrame
    /\ total_by_region = NoFrame
    /\ top_region = NoRegion
    /\ selected_line_regions = {}
    /\ line_df = NoFrame
    /\ region_totals_df = NoFrame

\* main, line 74
Load ==
    /\ pc = "load"
    /\ LET r == load_and_process_data(file)
       IN  /\ df' = r.df
           /\ err' = r.err
           /\ pc' = IF r.err = "none" THEN "slider" ELSE "error"
    /\ UNCHANGED <<file, locals>>

\* df['Year'].unique()
Years(d) == { d.rows[i]["Year"] : i \in DOMAIN d.rows }

\* sorted(df['Year'].unique())[0] is missing: unique() keeps the order of first
\* appearance and no value compares less than a missing one, so with up to
\* three distinct values sorted() leaves a leading missing value in front
\* and never moves one there
DefaultYearMissing(d) == d.rows[1]["Year"] = NaN

\* main, lines 75-82: the slider looks its default up among its options by
\* equality, which fails for a missing value and ends the run; otherwise it
\* returns one of the options
SelectYear ==
    /\ pc = "slider"
    /\ IF DefaultYearMissing(df)
       THEN /\ selected_year' = NaN
            /\ pc' = "error"
            /\ err' = "ValueError"
       ELSE /\ \E y \in Years(df) : selected_year' = y
            /\ pc' = "map"
            /\ err' = "none"
    /\ UNCHANGED <<file, df, arg_before, arg_after, coords, df_total,
                   total_by_region, top_region, selected_line_regions, line_df,
                   region_totals_df>>

\* main, line 88
PlotBubbleMap ==
    /\ pc = "map"
    /\ LET r == plot_bubble_map(df, selected_year)
       IN  /\ df' = r.df
           /\ arg_before' = r.arg_before
           /\ arg_after' = r.arg_after
           /\ coords' = r.coords
           /\ df_total' = r.df_total
           /\ err' = r.err
           /\ pc' = IF r.err = "none" THEN "text" ELSE "error"
    /\ UNCHANGED <<file, selected_year, total_by_region, top_region,
                   selected_line_regions, line_df, region_totals_df>>

\* main, lines 92-94: sort_values(ascending=False), then index[0]
TopRegionText ==
    /\ pc = "text"
    /\ total_by_region' = GroupByRegion(df)
    /\ \E r \in DOMAIN total_by_region'.rows :
          /\ \A q \in DOMAIN total_by_region'.rows :
                total_by_region'.rows[q]["Cases"] <= total_by_region'.rows[r]["Cases"]
          /\ top_region' = r
    /\ pc' = "multiselect"
    /\ UNCHANGED <<file, err, df, selected_year, arg_before, arg_after, coords,
                   df_total, selected_line_regions, line_df, region_totals_df>>

\* sorted(df['Region'].unique())
available_regions(d) == { d.rows[i]["Region"] : i \in DOMAIN d.rows }

\* main, lines 112-117: the multiselect rejects a default that is not one of
\* its options, which ends the run; otherwise it returns a subset of them
SelectRegions ==
    /\ pc = "multiselect"
    /\ IF BeqaaValley \in available_regions(df)
       THEN /\ \E S \in SUBSET available_regions(df) : selected_line_regions' = S
            /\ pc' = "line"
            /\ err' = "none"
       ELSE /\ selected_line_regions' = {}
            /\ pc' = "error"
            /\ err' = "StreamlitAPIException"
    /\ UNCHANGED <<file, df, selected_year, arg_before, arg_after, coords,
                   df_total, total_by_region, top_region, line_df, region_totals_df>>

\* main, lines 119-153: the trend aggregate, then one label per selected
\* region at its latest point (values[0] of an empty selection raises)
TrendAggregate ==
    /\ pc = "line"
    /\ line_df' = GroupByYearRegion(df, selected_line_regions)
    /\ LET unlabelled == { r \in selected_line_regions :
                             ~ \E k \in DOMAIN line_df'.rows : k[2] = r }
       IN  /\ err' = IF unlabelled = {} THEN "none" ELSE "IndexError"
           /\ pc' = IF unlabelled = {} THEN "bar" ELSE "error"
    /\ UNCHANGED <<file, df, selected_year, arg_before, arg_after, coords, df_total,
                   total_by_region, top_region, selected_line_regions, region_totals_df>>

Color(d) ==
    [i \in DOMAIN d.rows |->
        IF d.rows[i]["Region"] = BeqaaValley THEN "indianred" ELSE "lightgrey"]

\* main, lines 159-165
region_totals(d) ==
    LET g == GroupByRegion(d)
        renamed == [columns |-> <<"Region", "Total Cases">>,
                    rows |-> [r \in DOMAIN g.rows |->
                                ("Region" :> r) @@ ("Total Cases" :> g.rows[r]["Cases"])]]
    IN  SetColumn(renamed, "Color", Color(renamed))

BarAggregate ==
    /\ pc = "bar"
    /\ region_totals_df' = region_totals(df)
    /\ pc' = "done"
    /\ UNCHANGED <<file, err, df, selected_year, arg_before, arg_after, coords,
                   df_total, total_by_region, top_region, selected_line_regions, line_df>>

\* a widget change re-runs the script; load_and_process_data is cached
Rerun ==
    /\ pc \in {"done", "error"}
    /\ df # NoFrame
    /\ pc' = "slider"
    /\ err' = "none"
    /\ selected_year' = NaN
    /\ arg_before' = NoFrame
    /\ arg_after' = NoFrame
    /\ coords' = NoFrame
    /\ df_total' = NoFrame
    /\ total_by_region' = NoFrame
    /\ top_region' = NoRegion
    /\ selected_line_regions' = {}
    /\ line_df' = NoFrame
    /\ region_totals_df' = NoFrame
    /\ UNCHANGED <<file, df>>

Next ==
    \/ Load
    \/ SelectYear
    \/ PlotBubbleMap
    \/ TopRegionText
    \/ SelectRegions
    \/ TrendAggregate
    \/ BarAggregate
    \/ Rerun

Spec == Init /\ [][Next]_vars

TypeOK == pc \in {"load", "slider", "map", "text", "multiselect", "line", "bar", "done", "error"}

\* ------------------------------------------------------------ properties
RECURSIVE SumCol(_, _, _)
SumCol(rows, S, col) ==
    IF S = {} THEN 0
    ELSE LET i == CHOOSE j \in S : TRUE
         IN  rows[i][col] + SumCol(rows, S \ {i}, col)

Mapped(r) == r \in DOMAIN REGION_COORDS

Loaded == pc # "load" /\ df # NoFrame

\* add_coordinates has been called in this script run
MapBuilt == arg_before # NoFrame

\* records of the loaded frame of region r in the selected year
RecordsOf(r, y) ==
    { i \in DOMAIN df.rows :
        /\ df.rows[i]["Region"] = r
        /\ df.rows[i]["Year"] # NaN
        /\ df.rows[i]["Year"] = y }

RecordsOfRegion(r) == { i \in DOMAIN df.rows : df.rows[i]["Region"] = r }

\* C1: the map aggregate (year filter, group by Region, sum, add_coordinates)
\* of the selected year has one row per mapped region with a record in that
\* year, whose total is the sum of these records' Cases, so that the total of
\* the aggregate is the sum of Cases over exactly the records of that year with
\* a mapped region.
C1_MapAggregateTotal ==
    MapBuilt =>
        LET inYearMapped == { i \in DOMAIN df.rows :
                                /\ df.rows[i]["Year"] # NaN
                                /\ df.rows[i]["Year"] = selected_year
                                /\ Mapped(df.rows[i]["Region"]) }
        IN  /\ SumCol(coords.rows, DOMAIN coords.rows, "Cases")
                 = SumCol(df.rows, inYearMapped, "Cases")
            /\ DOMAIN coords.rows = { df.rows[i]["Region"] : i \in inYearMapped }
            /\ \A r \in DOMAIN coords.rows :
                  /\ coords.rows[r]["Region"] = r
                  /\ coords.rows[r]["Cases"]
                       = SumCol(df.rows, RecordsOf(r, selected_year), "Cases")
            /\ (pc = "text" =>
                  /\ DOMAIN df_total.rows = DOMAIN coords.rows
                  /\ \A r \in DOMAIN coords.rows :
                        df_total.rows[r]["Cases"] = coords.rows[r]["Cases"])

\* the map of the selected year shows a region while another record of that
\* year has a region without coordinates
C1_Witness ==
    /\ MapBuilt
    /\ pc = "text"
    /\ DOMAIN coords.rows # {}
    /\ \E i \in DOMAIN df.rows :
          /\ df.rows[i]["Year"] = selected_year
          /\ ~ Mapped(df.rows[i]["Region"])

\* C2: add_coordinates returns exactly the rows of its argument whose Region is
\* a key of REGION_COORDS, each unchanged apart from the table's latitude and
\* longitude being attached.
C2_StrictSubsetFilter ==
    MapBuilt =>
        /\ DOMAIN coords.rows
             = { i \in DOMAIN arg_before.rows : Mapped(arg_before.rows[i]["Region"]) }
        /\ \A i \in DOMAIN coords.rows :
              /\ DOMAIN coords.rows[i] = (DOMAIN arg_before.rows[i]) \cup {"lat", "lon"}
              /\ \A c \in DOMAIN arg_before.rows[i] :
                    coords.rows[i][c] = arg_before.rows[i][c]
              /\ coords.rows[i]["lat"] = REGION_COORDS[coords.rows[i]["Region"]][1]
              /\ coords.rows[i]["lon"] = REGION_COORDS[coords.rows[i]["Region"]][2]

\* the argument had a mapped and an unmapped region
C2_Witness ==
    /\ MapBuilt
    /\ \E i, j \in DOMAIN arg_before.rows :
          /\ Mapped(arg_before.rows[i]["Region"])
          /\ ~ Mapped(arg_before.rows[j]["Region"])
          /\ i \in DOMAIN coords.rows
          /\ j \notin DOMAIN coords.rows

\* C3: every loaded record with an unmapped Region is counted in the all-years
\* per-region aggregates (top-region text, bar chart) and, when its Region is
\* selected, in the (Year, Region) trend aggregate.
C3_UnmappedKeptOutsideMap ==
    \A i \in DOMAIN df.rows :
        ~ Mapped(df.rows[i]["Region"]) =>
            LET r == df.rows[i]["Region"]
            IN  /\ (total_by_region # NoFrame =>
                      /\ r \in DOMAIN total_by_region.rows
                      /\ total_by_region.rows[r]["Cases"]
                           = SumCol(df.rows, RecordsOfRegion(r), "Cases"))
                /\ (region_totals_df # NoFrame =>
                      /\ r \in DOMAIN region_totals_df.rows
                      /\ region_totals_df.rows[r]["Total Cases"]
                           = SumCol(df.rows, RecordsOfRegion(r), "Cases"))
                /\ ((line_df # NoFrame /\ r \in selected_line_regions) =>
                      \E k \in DOMAIN line_df.rows :
                          /\ k = <<df.rows[i]["Year"], r>>
                          /\ line_df.rows[k]["Cases"] >= df.rows[i]["Cases"])

\* C4: Region is the last '/'-segment of refArea with '_' replaced by ' ' and
\* the two aliases mapped to Tripoli; the remap is idempotent on every loaded
\* Region, no loaded Region is an alias, and the records of both aliases are
\* summed under Tripoli in the all-years aggregates.
IsAliasSegment(seg) ==
    ReplaceUnderscores(seg) \in {NorthGovernorate, NorthLebanon}

C4_RegionNormalization ==
    Loaded =>
        /\ \A i \in DOMAIN df.rows :
              LET r == df.rows[i]["Region"]
                  a == df.rows[i]["refArea"]
                  cut == Len(a) - Len(r)
              IN  /\ r \notin {NorthGovernorate, NorthLebanon}
                  /\ AliasRemap(r) = r
                  /\ \A k \in 1..Len(r) : r[k] # "/" /\ r[k] # "_"
                  /\ IF IsAliasSegment(LastSegment(a)) THEN r = Tripoli
                     ELSE /\ cut >= 0
                          /\ (cut > 0 => a[cut] = "/")
                          /\ \A k \in 1..Len(r) :
                                r[k] = IF a[cut + k] = "_" THEN " " ELSE a[cut + k]
        /\ (total_by_region # NoFrame =>
              \A r \in DOMAIN total_by_region.rows :
                  r = Tripoli =>
                      total_by_region.rows[r]["Cases"]
                        = SumCol(df.rows,
                                 { i \in DOMAIN df.rows :
                                     IsAliasSegment(LastSegment(df.rows[i]["refArea"])) },
                                 "Cases"))
        /\ (region_totals_df # NoFrame =>
              \A r \in DOMAIN region_totals_df.rows :
                  r = Tripoli =>
                      region_totals_df.rows[r]["Total Cases"]
                        = SumCol(df.rows,
                                 { i \in DOMAIN df.rows :
                                     IsAliasSegment(LastSegment(df.rows[i]["refArea"])) },
                                 "Cases"))

\* records of both aliases were loaded and summed in the all-years aggregate
\* of line 92
C4_Witness ==
    /\ Loaded
    /\ total_by_region # NoFrame
    /\ Tripoli \in DOMAIN total_by_region.rows
    /\ \E i, j \in DOMAIN df.rows :
          /\ ReplaceUnderscores(LastSegment(df.rows[i]["refArea"])) = NorthGovernorate
          /\ ReplaceUnderscores(LastSegment(df.rows[j]["refArea"])) = NorthLebanon

\* C5: once load_and_process_data has run, a missing file or a row whose final
\* refPeriod segment does not parse under %m-%Y means that it failed and
\* returned no records.
C5_LoadAllOrNothing ==
    pc # "load" =>
        ((\/ ~ file.exists
          \/ \E i \in DOMAIN file.rows :
                ~ to_datetime_strict(LastSegment(file.rows[i]["refPeriod"])).ok)
            => (pc = "error" /\ err # "none" /\ df = NoFrame))

\* C6: the trend aggregate has a row for (Year, Region) iff the Region is
\* selected and some loaded record has that Region and Year; the row's total is
\* the sum of those records' Cases.  (A record has year y when its Year == y,
\* which no record has for a missing Year.)
YearUniverse == 2018..2021

C6_TrendAggregate ==
    line_df # NoFrame =>
        /\ \A k \in DOMAIN line_df.rows :
              /\ k[1] \in YearUniverse
              /\ k[2] \in selected_line_regions
              /\ line_df.rows[k]["Year"] = k[1]
              /\ line_df.rows[k]["Region"] = k[2]
        /\ \A y \in YearUniverse \cup {NaN} : \A r \in available_regions(df) :
              /\ (<<y, r>> \in DOMAIN line_df.rows
                    <=> (r \in selected_line_regions /\ RecordsOf(r, y) # {}))
              /\ (<<y, r>> \in DOMAIN line_df.rows =>
                    line_df.rows[<<y, r>>]["Cases"] = SumCol(df.rows, RecordsOf(r, y), "Cases"))

\* a selected region has a row for one year and none for another year of the
\* data set
C6_Witness ==
    /\ line_df # NoFrame
    /\ \E r \in selected_line_regions : \E y1, y2 \in YearUniverse :
          /\ <<y1, r>> \in DOMAIN line_df.rows
          /\ <<y2, r>> \notin DOMAIN line_df.rows
          /\ \E i \in DOMAIN df.rows : df.rows[i]["Year"] = y2

\* C7: the all-years aggregates have exactly one row per distinct Region of
\* the loaded records, whose total is the sum of Cases of all records of that
\* Region, whatever year is selected.
C7_AllYearsAggregate ==
    /\ (total_by_region # NoFrame =>
          /\ DOMAIN total_by_region.rows = available_regions(df)
          /\ \A r \in DOMAIN total_by_region.rows :
                total_by_region.rows[r]["Cases"]
                  = SumCol(df.rows, RecordsOfRegion(r), "Cases"))
    /\ (region_totals_df # NoFrame =>
          /\ DOMAIN region_totals_df.rows = available_regions(df)
          /\ \A r \in DOMAIN region_totals_df.rows :
                /\ region_totals_df.rows[r]["Region"] = r
                /\ region_totals_df.rows[r]["Total Cases"]
                     = SumCol(df.rows, RecordsOfRegion(r), "Cases"))

\* one region has records in two different years, summed into one row
C7_Witness ==
    /\ region_totals_df # NoFrame
    /\ total_by_region # NoFrame
    /\ \E i, j \in DOMAIN df.rows :
          /\ df.rows[i]["Region"] = df.rows[j]["Region"]
          /\ df.rows[i]["Year"] # NaN /\ df.rows[j]["Year"] # NaN
          /\ df.rows[i]["Year"] # df.rows[j]["Year"]
          /\ df.rows[i]["Year"] # selected_year

\* C8: no step of the script changes the loaded frame: after the load it keeps
\* the rows and columns load_and_process_data returned.
C8_BaseImmutable == [][pc # "load" => df' = df]_vars

\* a full run (map, text, trend, bar aggregates) was made on a loaded frame
C8_Witness ==
    /\ pc = "done"
    /\ MapBuilt
    /\ df_total # NoFrame
    /\ line_df # NoFrame
    /\ DOMAIN line_df.rows # {}
    /\ region_totals_df # NoFrame
    /\ df = load_and_process_data(file).df

\* C9: add_coordinates leaves the frame passed to it as it was when called.
C9_AddCoordinatesPure == MapBuilt => arg_after = arg_before

\* C10: plot_bubble_map never ends in an error; when no region of the selected
\* year is mapped it returns an empty aggregate.
C10_MapNeverFails ==
    MapBuilt => /\ ~ (pc = "error" /\ err = "ValueError")
                /\ (DOMAIN coords.rows = {} => pc # "error")
====
